---- MODULE Spec2Model ----
(***************************************************************************)
(* Jumpman: block navigation of src/src/extension.ts.                      *)
(*                                                                         *)
(* A document is a sequence of lines (0-indexed in the code, so line n of  *)
(* the code is document[n + 1] here).  An editor carries the visible       *)
(* ranges and the selection.  nextPosition computes the line a jump lands  *)
(* on; the four commands write it into the selection.                      *)
(***************************************************************************)
EXTENDS Integers, Sequences, FiniteSets

\* Bounds of the model.
MaxLines == 5          \* lines of a document: moves, selects, direct calls
MaxRanges == 2         \* visible ranges of an editor
MaxEditorLines == 4    \* lines of a document: the four commands together,
                       \* and the functions of the visible ranges
MaxColumn == 1         \* column of the initial cursor

VARIABLES
    document,          \* editor.document: the lines
    visibleRanges,     \* editor.visibleRanges: sequence of [start, end] lines
    activeTextEditor,  \* whether vscode.window.activeTextEditor is defined
    selection,         \* editor.selection: [anchor, active] positions
    revealedRange,     \* the range last passed to editor.revealRange, if any
    last,              \* the last command that ran: [cmd, from, target] and
                       \* the selection it found, as <<selection>>
    call               \* the last direct call of a function: its name, its
                       \* arguments and its outcome

vars == <<document, visibleRanges, activeTextEditor, selection, revealedRange,
          last, call>>

----------------------------------------------------------------------------
\* vscode.TextLine, as far as the code and its tests read it.
\* text is the sequence of the line's characters.
BlankLine == [isEmptyOrWhitespace |-> TRUE, text |-> <<>>]
TextLine == [isEmptyOrWhitespace |-> FALSE, text |-> <<"x">>]
CloseLine == [isEmptyOrWhitespace |-> FALSE, text |-> <<" ", "}">>]
LineValues == {BlankLine, TextLine, CloseLine}

lineCount(doc) == Len(doc)
lineAt(doc, n) == doc[n + 1]

\* lineAt throws for a line the document does not have (part_001 29-35).
lineAtThrows(doc, n) == n + 1 \notin DOMAIN doc

\* The editor argument of the navigation functions: absent (undefined), an
\* editor whose visibleRanges is undefined, or an editor with visible ranges.
NoEditor ==
    [present |-> FALSE, hasVisibleRanges |-> FALSE, visibleRanges |-> <<>>]
EditorNoRanges ==
    [present |-> TRUE, hasVisibleRanges |-> FALSE, visibleRanges |-> <<>>]
Editor(ranges) ==
    [present |-> TRUE, hasVisibleRanges |-> TRUE, visibleRanges |-> ranges]

Position(l, c) == [line |-> l, character |-> c]

----------------------------------------------------------------------------
\* isLineVisible with the end of a range left out.
isLineVisibleEndExclusive(lineNumber, editor) ==
    IF \/ ~editor.present
       \/ ~editor.hasVisibleRanges
       \/ Len(editor.visibleRanges) = 0
    THEN TRUE
    ELSE \E k \in 1..Len(editor.visibleRanges) :
            /\ lineNumber >= editor.visibleRanges[k].start
            /\ lineNumber < editor.visibleRanges[k].end

\* isLineVisible without its early return: no visible range, no visible line.
isLineVisibleNoEarlyReturn(lineNumber, editor) ==
    \E k \in 1..Len(editor.visibleRanges) :
        /\ lineNumber >= editor.visibleRanges[k].start
        /\ lineNumber <= editor.visibleRanges[k].end

\* extension.ts 4-16
isLineVisible(lineNumber, editor) ==
    IF \/ ~editor.present
       \/ ~editor.hasVisibleRanges
       \/ Len(editor.visibleRanges) = 0
    THEN TRUE
    ELSE \E k \in 1..Len(editor.visibleRanges) :
            /\ lineNumber >= editor.visibleRanges[k].start
            /\ lineNumber <= editor.visibleRanges[k].end

\* extension.ts 19-31
shouldContinueInBlock(doc, index, nextIndex, boundary, editor) ==
    IF index = boundary THEN FALSE
    ELSE IF lineAt(doc, index).isEmptyOrWhitespace THEN FALSE
    ELSE IF nextIndex = boundary THEN FALSE
    ELSE IF ~isLineVisible(nextIndex, editor) THEN FALSE
    ELSE TRUE

\* extension.ts 41-45: the while loop of skipToEndOfBlock
RECURSIVE skipToEndOfBlockLoop(_, _, _, _, _)
skipToEndOfBlockLoop(doc, index, step, boundary, editor) ==
    IF shouldContinueInBlock(doc, index, index + step, boundary, editor)
    THEN skipToEndOfBlockLoop(doc, index + step, step, boundary, editor)
    ELSE index

\* skipToEndOfBlock without its boundary case (lines 47-53).
skipToEndOfBlockNoBoundaryCase(doc, index, step, boundary, editor) ==
    skipToEndOfBlockLoop(doc, index, step, boundary, editor)

\* extension.ts 34-55
skipToEndOfBlock(doc, index, step, boundary, editor) ==
    LET i == skipToEndOfBlockLoop(doc, index, step, boundary, editor)
    IN  IF /\ i # boundary
           /\ ~lineAt(doc, i).isEmptyOrWhitespace
           /\ i + step = boundary
        THEN boundary
        ELSE i

\* skipEmptyLines that skips nothing: the jump stops on the blank line.
skipEmptyLinesNoSkipping(doc, index, step, boundary, editor) == index

\* extension.ts 58-73
RECURSIVE skipEmptyLines(_, _, _, _, _)
skipEmptyLines(doc, index, step, boundary, editor) ==
    IF /\ index # boundary
       /\ lineAt(doc, index).isEmptyOrWhitespace
       /\ isLineVisible(index, editor)
    THEN skipEmptyLines(doc, index + step, step, boundary, editor)
    ELSE index

\* skipCollapsedRegion that stops one line short of the boundary.
RECURSIVE skipCollapsedRegionStopsShort(_, _, _, _)
skipCollapsedRegionStopsShort(index, step, boundary, editor) ==
    IF /\ index # boundary /\ index + step # boundary
       /\ ~isLineVisible(index, editor)
    THEN skipCollapsedRegionStopsShort(index + step, step, boundary, editor)
    ELSE index

\* skipCollapsedRegion with an if for its while: one hidden line is skipped.
skipCollapsedRegionOneStep(index, step, boundary, editor) ==
    IF index # boundary /\ ~isLineVisible(index, editor)
    THEN index + step
    ELSE index

\* extension.ts 76-86
RECURSIVE skipCollapsedRegion(_, _, _, _)
skipCollapsedRegion(index, step, boundary, editor) ==
    IF index # boundary /\ ~isLineVisible(index, editor)
    THEN skipCollapsedRegion(index + step, step, boundary, editor)
    ELSE index

\* extension.ts 89-92
isAtCollapsedEdge(index, editor) ==
    IF index = 0 THEN FALSE ELSE ~isLineVisible(index - 1, editor)

\* extension.ts 100-102: the while loop of findVisibleAboveCollapsed
RECURSIVE findVisibleAboveCollapsedLoop(_, _)
findVisibleAboveCollapsedLoop(current, editor) ==
    IF current > 0 /\ ~isLineVisible(current, editor)
    THEN findVisibleAboveCollapsedLoop(current - 1, editor)
    ELSE current

\* extension.ts 95-104
findVisibleAboveCollapsed(index, editor) ==
    findVisibleAboveCollapsedLoop(index - 1, editor)

\* The null of findCollapsedBlockStart's number | null (no line is negative).
Null == -1

\* extension.ts 107-133
findCollapsedBlockStart(doc, index, editor) ==
    IF ~editor.present THEN Null
    ELSE IF ~isAtCollapsedEdge(index, editor) THEN Null
    ELSE LET collapsedStart == findVisibleAboveCollapsed(index, editor)
         IN  IF /\ collapsedStart >= 0
                /\ isLineVisible(collapsedStart, editor)
                /\ ~lineAt(doc, collapsedStart).isEmptyOrWhitespace
             THEN collapsedStart
             ELSE Null

\* findBlockStart with an if for its while: it walks one line back.
findBlockStartOneLine(doc, index, editor) ==
    IF /\ index > 0 /\ ~lineAt(doc, index - 1).isEmptyOrWhitespace
       /\ isLineVisible(index - 1, editor)
    THEN index - 1
    ELSE index

\* extension.ts 136-148
RECURSIVE findBlockStart(_, _, _)
findBlockStart(doc, index, editor) ==
    IF index > 0 /\ ~lineAt(doc, index - 1).isEmptyOrWhitespace
    THEN IF ~isLineVisible(index - 1, editor)
         THEN index
         ELSE findBlockStart(doc, index - 1, editor)
    ELSE index

\* handleMoveUp that leaves out findBlockStart: the jump stops on the last
\* line of the block above.
handleMoveUpNoBlockStart(doc, index, boundary, editor) ==
    IF index = boundary \/ lineAt(doc, index).isEmptyOrWhitespace
    THEN index
    ELSE LET collapsedStart == findCollapsedBlockStart(doc, index, editor)
         IN  IF collapsedStart # Null THEN collapsedStart ELSE index

\* extension.ts 151-173
handleMoveUp(doc, index, boundary, editor) ==
    IF index = boundary \/ lineAt(doc, index).isEmptyOrWhitespace
    THEN index
    ELSE LET collapsedStart == findCollapsedBlockStart(doc, index, editor)
         IN  IF collapsedStart # Null THEN collapsedStart
             ELSE IF isLineVisible(index, editor)
                  THEN findBlockStart(doc, index, editor)
                  ELSE index

\* extension.ts 176-196
processNavigation(doc, index, step, boundary, editor) ==
    LET i1 == skipToEndOfBlock(doc, index, step, boundary, editor)
        i2 == skipEmptyLines(doc, i1, step, boundary, editor)
    IN  IF ~isLineVisible(i2, editor)
        THEN skipEmptyLines(doc,
                 skipCollapsedRegion(i2, step, boundary, editor),
                 step, boundary, editor)
        ELSE i2

\* handleMoveDownAtCollapsedEdge that leaves the cursor where it is.
handleMoveDownAtCollapsedEdgeStays(doc, index, boundary, editor) == index

\* extension.ts 199-217
handleMoveDownAtCollapsedEdge(doc, index, boundary, editor) ==
    IF ~editor.present \/ index = boundary THEN index
    ELSE LET nextLine == index + 1
         IN  IF nextLine <= boundary /\ ~isLineVisible(nextLine, editor)
             THEN skipEmptyLines(doc,
                      skipCollapsedRegion(nextLine, 1, boundary, editor),
                      1, boundary, editor)
             ELSE index

\* nextPosition with the lower boundary one past the last line.
nextPositionBoundaryPastEnd(doc, position, up, editor) ==
    LET boundary == IF up THEN 0 ELSE lineCount(doc)
        step == IF up THEN -1 ELSE 1
    IN  IF position.line = boundary THEN position.line
        ELSE LET index == processNavigation(doc, position.line, step,
                                            boundary, editor)
             IN  IF up THEN handleMoveUp(doc, index, boundary, editor)
                 ELSE IF index = position.line
                      THEN handleMoveDownAtCollapsedEdge(doc, index,
                                                         boundary, editor)
                      ELSE index

\* nextPosition with the upper boundary one before the first line.
nextPositionBoundaryBeforeStart(doc, position, up, editor) ==
    LET boundary == IF up THEN -1 ELSE lineCount(doc) - 1
        step == IF up THEN -1 ELSE 1
    IN  IF position.line = boundary THEN position.line
        ELSE LET index == processNavigation(doc, position.line, step,
                                            boundary, editor)
             IN  IF up THEN handleMoveUp(doc, index, boundary, editor)
                 ELSE IF index = position.line
                      THEN handleMoveDownAtCollapsedEdge(doc, index,
                                                         boundary, editor)
                      ELSE index

\* nextPosition with the test of its direction inverted after the walk.
nextPositionDispatchInverted(doc, position, up, editor) ==
    LET boundary == IF up THEN 0 ELSE lineCount(doc) - 1
        step == IF up THEN -1 ELSE 1
    IN  IF position.line = boundary THEN position.line
        ELSE LET index == processNavigation(doc, position.line, step,
                                            boundary, editor)
             IN  IF ~up THEN handleMoveUp(doc, index, boundary, editor)
                 ELSE IF index = position.line
                      THEN handleMoveDownAtCollapsedEdge(doc, index,
                                                         boundary, editor)
                      ELSE index

\* extension.ts 219-251
nextPosition(doc, position, up, editor) ==
    LET boundary == IF up THEN 0 ELSE lineCount(doc) - 1
        step == IF up THEN -1 ELSE 1
    IN  IF position.line = boundary THEN position.line
        ELSE LET index == processNavigation(doc, position.line, step,
                                            boundary, editor)
             IN  IF up THEN handleMoveUp(doc, index, boundary, editor)
                 ELSE IF index = position.line
                      THEN handleMoveDownAtCollapsedEdge(doc, index,
                                                         boundary, editor)
                      ELSE index

\* The outcome of a call: it returns a value or it throws.
Returned(v) == [threw |-> FALSE, value |-> v]
Thrown == [threw |-> TRUE, value |-> 0]

\* A call of nextPosition.  The first statement that reads the document is
\* lineAt(position.line) (extension.ts 232, 184, 42, 26-27), which throws for
\* a line the document does not have; from a line of the document the walk
\* stays inside it.
nextPositionOutcome(doc, position, up, editor) ==
    LET boundary == IF up THEN 0 ELSE lineCount(doc) - 1
    IN  IF position.line # boundary /\ lineAtThrows(doc, position.line)
        THEN Thrown
        ELSE Returned(nextPosition(doc, position, up, editor))

----------------------------------------------------------------------------
\* vscode.Selection: start is the smaller and end the larger of anchor and
\* active, in (line, character) order.
isBefore(p, q) ==
    p.line < q.line \/ (p.line = q.line /\ p.character < q.character)
selectionStart(sel) ==
    IF isBefore(sel.active, sel.anchor) THEN sel.active ELSE sel.anchor
selectionEnd(sel) ==
    IF isBefore(sel.active, sel.anchor) THEN sel.anchor ELSE sel.active

\* anchorPosition without its test: always the end of the selection.
anchorPositionAlwaysEnd(sel) == selectionEnd(sel)

\* extension.ts 253-257
anchorPosition(sel) ==
    IF sel.active.line = selectionEnd(sel).line
    THEN selectionStart(sel)
    ELSE selectionEnd(sel)

\* markSelection with active.with(next): the column is kept.
markSelectionKeepsColumn(next, anchor) ==
    LET active == [selection.active EXCEPT !.line = next]
    IN  /\ selection' = [anchor |-> IF anchor = <<>> THEN active
                                    ELSE anchor[1],
                         active |-> active]
        /\ revealedRange' = <<[start |-> active, end |-> active]>>

\* markSelection that drops its anchor argument.
markSelectionNoAnchor(next, anchor) ==
    LET active == [selection.active EXCEPT !.line = next, !.character = 0]
    IN  /\ selection' = [anchor |-> active, active |-> active]
        /\ revealedRange' = <<[start |-> active, end |-> active]>>

\* extension.ts 259-267.  anchor is <<>> when the argument is left out, else
\* <<position>>.
markSelection(next, anchor) ==
    LET active == [selection.active EXCEPT !.line = next, !.character = 0]
    IN  /\ selection' = [anchor |-> IF anchor = <<>> THEN active
                                    ELSE anchor[1],
                         active |-> active]
        /\ revealedRange' = <<[start |-> active, end |-> active]>>

----------------------------------------------------------------------------
\* The inputs: documents of 1..n lines, and for a document of n lines the
\* visible-range sets an editor reports (ascending ranges inside the document
\* with hidden lines between them, at most MaxRanges of them; none when
\* nothing is known) and the malformed ones of one range with end < start,
\* which hide every line.  isLineVisible reads the ranges only through the
\* set of lines they cover, so an order or an overlap adds no case.
Documents(max) == UNION {[1..n -> LineValues] : n \in 1..max}

\* The documents of blank and text lines: the code reads of a line only
\* isEmptyOrWhitespace.
TextDocuments(max) == UNION {[1..n -> {BlankLine, TextLine}] : n \in 1..max}

Ranges(n) == [start : 0..(n - 1), end : 0..(n - 1)]

RangeSets(n) ==
    LET wellFormed == {r \in Ranges(n) : r.start <= r.end}
    IN  {rs \in UNION {[1..k -> wellFormed] : k \in 0..MaxRanges} :
            \A k \in 1..(Len(rs) - 1) : rs[k].end + 1 < rs[k + 1].start}
        \cup {<<r>> : r \in Ranges(n) \ wellFormed}

Cursor(l, c) == [anchor |-> Position(l, c), active |-> Position(l, c)]

NoCommand == [cmd |-> "none", from |-> 0, target |-> 0, before |-> <<>>]

NoCall == [fn |-> "none"]

\* An editor on some document of blank and text lines, its cursor anywhere,
\* or no active editor.
Init ==
    /\ document \in TextDocuments(MaxEditorLines)
    /\ visibleRanges \in RangeSets(Len(document))
    /\ activeTextEditor \in BOOLEAN
    /\ \E l \in 0..(Len(document) - 1), c \in 0..MaxColumn :
           selection = Cursor(l, c)
    /\ revealedRange = <<>>
    /\ last = NoCommand
    /\ call = NoCall

\* moveUp without the test of the active editor.
moveUpNoEditorTest ==
    LET next == nextPosition(document, selection.active, TRUE,
                             Editor(visibleRanges))
    IN  /\ markSelection(next, <<>>)
        /\ last' = [cmd |-> "moveUp", from |-> selection.active.line,
                    target |-> next, before |-> <<selection>>]
        /\ UNCHANGED <<document, visibleRanges, activeTextEditor, call>>

\* extension.ts 271-279
moveUp ==
    IF ~activeTextEditor
    THEN UNCHANGED vars
    ELSE LET next == nextPosition(document, selection.active, TRUE,
                                  Editor(visibleRanges))
         IN  /\ markSelection(next, <<>>)
             /\ last' = [cmd |-> "moveUp", from |-> selection.active.line,
                         target |-> next, before |-> <<selection>>]
             /\ UNCHANGED <<document, visibleRanges, activeTextEditor, call>>

\* extension.ts 282-290
moveDown ==
    IF ~activeTextEditor
    THEN UNCHANGED vars
    ELSE LET next == nextPosition(document, selection.active, FALSE,
                                  Editor(visibleRanges))
         IN  /\ markSelection(next, <<>>)
             /\ last' = [cmd |-> "moveDown", from |-> selection.active.line,
                         target |-> next, before |-> <<selection>>]
             /\ UNCHANGED <<document, visibleRanges, activeTextEditor, call>>

\* extension.ts 293-302
selectUp ==
    IF ~activeTextEditor
    THEN UNCHANGED vars
    ELSE LET next == nextPosition(document, selection.active, TRUE,
                                  Editor(visibleRanges))
         IN  /\ markSelection(next, <<anchorPosition(selection)>>)
             /\ last' = [cmd |-> "selectUp", from |-> selection.active.line,
                         target |-> next, before |-> <<selection>>]
             /\ UNCHANGED <<document, visibleRanges, activeTextEditor, call>>

\* extension.ts 305-314
selectDown ==
    IF ~activeTextEditor
    THEN UNCHANGED vars
    ELSE LET next == nextPosition(document, selection.active, FALSE,
                                  Editor(visibleRanges))
         IN  /\ markSelection(next, <<anchorPosition(selection)>>)
             /\ last' = [cmd |-> "selectDown", from |-> selection.active.line,
                         target |-> next, before |-> <<selection>>]
             /\ UNCHANGED <<document, visibleRanges, activeTextEditor, call>>

Next == moveUp \/ moveDown \/ selectUp \/ selectDown

Spec == Init /\ [][Next]_vars

\* The navigation function on its own: every document and visible-range set
\* of the bounds, the cursor at the start of any line, and the two directions.
NavInit ==
    /\ document \in Documents(MaxLines)
    /\ visibleRanges \in RangeSets(Len(document))
    /\ activeTextEditor = TRUE
    /\ \E l \in 0..(Len(document) - 1) : selection = Cursor(l, 0)
    /\ revealedRange = <<>>
    /\ last = NoCommand
    /\ call = NoCall

NavNext == moveUp \/ moveDown

SpecNav == NavInit /\ [][NavNext]_vars

\* Extending a selection on its own: a document of blank and text lines, any
\* visible-range set, the cursor anywhere, and the two select commands.
SelInit ==
    /\ document \in TextDocuments(MaxLines)
    /\ visibleRanges \in RangeSets(Len(document))
    /\ activeTextEditor = TRUE
    /\ \E l \in 0..(Len(document) - 1), c \in 0..MaxColumn :
           selection = Cursor(l, c)
    /\ revealedRange = <<>>
    /\ last = NoCommand
    /\ call = NoCall

SelNext == selectUp \/ selectDown

SpecSel == SelInit /\ [][SelNext]_vars

\* The functions called directly, as the tests of part_002 call them: on any
\* document and visible-range set of the bounds.  The functions keep no
\* state, so a behaviour is one call on one input.
CallInit ==
    /\ document \in TextDocuments(MaxLines)
    /\ visibleRanges \in RangeSets(Len(document))
    /\ activeTextEditor = FALSE
    /\ selection = Cursor(0, 0)
    /\ revealedRange = <<>>
    /\ last = NoCommand
    /\ call = NoCall

\* nextPosition(document, position, up, editor), from a line of the document
\* or the line before or after it, with the editor passed, absent, or without
\* visibleRanges.
callNextPosition ==
    \E line \in -1..Len(document), up \in BOOLEAN,
       editor \in {NoEditor, EditorNoRanges, Editor(visibleRanges)} :
        /\ call = NoCall
        /\ call' = [fn |-> "nextPosition", line |-> line, up |-> up,
                    editor |-> editor,
                    result |-> nextPositionOutcome(document,
                                   Position(line, 0), up, editor)]
        /\ UNCHANGED <<document, visibleRanges, activeTextEditor, selection,
                       revealedRange, last>>

\* skipToEndOfBlock(document, index, step, boundary, editor), from a line of
\* the document with the boundary at or after it in the direction of step.
callSkipToEndOfBlock ==
    \E index \in 0..(Len(document) - 1), step \in {-1, 1},
       boundary \in 0..(Len(document) - 1),
       editor \in {NoEditor, Editor(visibleRanges)} :
        /\ call = NoCall
        /\ (boundary - index) * step >= 0
        /\ call' = [fn |-> "skipToEndOfBlock", index |-> index,
                    step |-> step, boundary |-> boundary, editor |-> editor,
                    result |-> skipToEndOfBlock(document, index, step,
                                                boundary, editor)]
        /\ UNCHANGED <<document, visibleRanges, activeTextEditor, selection,
                       revealedRange, last>>

CallNext == callNextPosition \/ callSkipToEndOfBlock

\* The functions that read the visible ranges only, called directly: the
\* ranges in any order, overlapping or with end < start; the document gives
\* the line numbers.
AnyRangeSets(n) == UNION {[1..k -> Ranges(n)] : k \in 0..MaxRanges}

RangesInit ==
    /\ document \in UNION {[1..n -> {TextLine}] : n \in 1..MaxEditorLines}
    /\ visibleRanges \in AnyRangeSets(Len(document))
    /\ activeTextEditor = FALSE
    /\ selection = Cursor(0, 0)
    /\ revealedRange = <<>>
    /\ last = NoCommand
    /\ call = NoCall

\* isLineVisible(lineNumber, editor), for a line of the document or the line
\* before or after it.
callIsLineVisible ==
    \E line \in -1..Len(document),
       editor \in {NoEditor, EditorNoRanges, Editor(visibleRanges)} :
        /\ call = NoCall
        /\ call' = [fn |-> "isLineVisible", line |-> line, editor |-> editor,
                    result |-> isLineVisible(line, editor)]
        /\ UNCHANGED <<document, visibleRanges, activeTextEditor, selection,
                       revealedRange, last>>

\* skipCollapsedRegion(index, step, boundary, editor), with the boundary at
\* or after index in the direction of step.
callSkipCollapsedRegion ==
    \E index \in 0..(Len(document) - 1), step \in {-1, 1},
       boundary \in 0..(Len(document) - 1),
       editor \in {NoEditor, Editor(visibleRanges)} :
        /\ call = NoCall
        /\ (boundary - index) * step >= 0
        /\ call' = [fn |-> "skipCollapsedRegion", index |-> index,
                    step |-> step, boundary |-> boundary, editor |-> editor,
                    result |-> skipCollapsedRegion(index, step, boundary,
                                                   editor)]
        /\ UNCHANGED <<document, visibleRanges, activeTextEditor, selection,
                       revealedRange, last>>

RangesNext == callIsLineVisible \/ callSkipCollapsedRegion

SpecRanges == RangesInit /\ [][RangesNext]_vars

\* anchorPosition called directly, as the tests of part_002 call it: on any
\* selection whose ends are positions of the document's lines.
AnchorInit ==
    /\ document \in UNION {[1..n -> {TextLine}] : n \in 1..MaxLines}
    /\ visibleRanges = <<>>
    /\ activeTextEditor = FALSE
    /\ selection = Cursor(0, 0)
    /\ revealedRange = <<>>
    /\ last = NoCommand
    /\ call = NoCall

Positions(n) == [line : 0..(n - 1), character : 0..MaxColumn]

callAnchorPosition ==
    \E anchor \in Positions(Len(document)),
       active \in Positions(Len(document)) :
        /\ call = NoCall
        /\ call' = [fn |-> "anchorPosition",
                    selection |-> [anchor |-> anchor, active |-> active],
                    result |-> anchorPosition([anchor |-> anchor,
                                               active |-> active])]
        /\ UNCHANGED <<document, visibleRanges, activeTextEditor, selection,
                       revealedRange, last>>

AnchorNext == callAnchorPosition

SpecAnchor == AnchorInit /\ [][AnchorNext]_vars

SpecCall == CallInit /\ [][CallNext]_vars

----------------------------------------------------------------------------
\* String.prototype.trim on a sequence of characters.
Whitespace == {" ", "\t"}

RECURSIVE trimStart(_)
trimStart(text) ==
    IF Len(text) > 0 /\ Head(text) \in Whitespace
    THEN trimStart(Tail(text))
    ELSE text

RECURSIVE trimEnd(_)
trimEnd(text) ==
    IF Len(text) > 0 /\ text[Len(text)] \in Whitespace
    THEN trimEnd(SubSeq(text, 1, Len(text) - 1))
    ELSE text

trim(text) == trimEnd(trimStart(text))

\* The standalone closing delimiters (spec 4.2; tested in part_002 177-207).
ClosingDelimiters ==
    {<<"}">>, <<"]">>, <<")">>,
     <<"}", ";">>, <<"]", ";">>, <<")", ";">>,
     <<"}", ")", ";">>, <<"}", ")">>, <<"]", ")", ";">>, <<"]", ")">>}

isStandaloneClosingBrace(text) == trim(text) \in ClosingDelimiters

----------------------------------------------------------------------------
\* Shorthands for the properties.
N == Len(document)
Lines == 0..(N - 1)
Ed == Editor(visibleRanges)
Blank(i) == lineAt(document, i).isEmptyOrWhitespace
Visible(i) == isLineVisible(i, Ed)
Closer(i) == isStandaloneClosingBrace(lineAt(document, i).text)
AllVisible == \A i \in Lines : Visible(i)
Min(S) == CHOOSE x \in S : \A y \in S : x <= y
Max(S) == CHOOSE x \in S : \A y \in S : x >= y
Down == last.cmd \in {"moveDown", "selectDown"}
Up == last.cmd \in {"moveUp", "selectUp"}

----------------------------------------------------------------------------
\* The first line of a block after line i: non-blank with a blank line above.
BlockStartsAfter(i) == {j \in Lines : j > i /\ ~Blank(j) /\ Blank(j - 1)}

PreviousBlockLines(i) ==
    {p \in Lines : /\ p < i /\ ~Blank(p)
                   /\ (Blank(i) \/ \E b \in (p + 1)..(i - 1) : Blank(b))}

\* The first line of the block containing the non-blank line p.
BlockStartOf(p) == Min({q \in 0..p : \A k \in q..p : ~Blank(k)})

C3_NoOpAtEdges ==
    /\ (Up /\ last.from = 0) => last.target = 0
    /\ (Down /\ last.from = N - 1) => last.target = N - 1

\* moveDown ran on the last line of a document of several lines and blocks,
\* part of it hidden.
C3_Witness ==
    /\ Down /\ last.from = N - 1 /\ N >= 3 /\ ~AllVisible
    /\ \E i \in Lines : Blank(i)
    /\ last.target = last.from

\* C4: the target of a command, and with it the cursor line, is a line of
\* the document, whatever the visible ranges hide, after any sequence of the
\* four commands.
C4_TargetInDocument ==
    /\ last.cmd # "none" => last.target \in Lines
    /\ selection.active.line \in Lines

\* A select command moved the cursor while the visible ranges hide every line.
C4_Witness ==
    /\ last.cmd \in {"selectUp", "selectDown"}
    /\ \A i \in Lines : ~Visible(i)
    /\ last.target # last.from
    /\ selection.active.line = last.target
    /\ selection.anchor.line # last.target

\* C5: a jump (a target other than the start line) lands on no hidden line.
C5_NeverLandsOnHiddenLine ==
    (last.cmd # "none" /\ last.target # last.from) => Visible(last.target)

\* C6: when every line of an interval a..b is hidden, no command returns a
\* line strictly inside it, wherever it starts.
C6_CollapsedRegionOpaque ==
    last.cmd # "none" =>
        \A a, b \in Lines :
            (\A k \in a..b : ~Visible(k)) =>
                ~(a < last.target /\ last.target < b)

\* A command that started before or inside a hidden run of three lines or
\* more came out on its other side.
C6_Witness ==
    \E a \in Lines :
        /\ a + 2 \in Lines
        /\ \A k \in a..(a + 2) : ~Visible(k)
        /\ \/ Down /\ last.from <= a + 1 /\ last.target > a + 2
           \/ Up /\ last.from >= a + 1 /\ last.target < a

\* A line a jump may land on by the closing-delimiter rule.
Candidate(j) == Visible(j) /\ ~Blank(j) /\ ~Closer(j)

\* C7: moveDown returns no standalone closing delimiter line when a later
\* visible, non-blank, non-delimiter line exists, and moveUp none when an
\* earlier one exists.
C7_ClosingDelimiterSkipped ==
    /\ (Down /\ last.from < N - 1 /\ Closer(last.target)) =>
           ~\E j \in Lines : j > last.target /\ Candidate(j)
    /\ (Up /\ last.from > 0 /\ Closer(last.target)) =>
           ~\E j \in Lines : j < last.target /\ Candidate(j)

\* The end of the current block for the forward search from line i: i itself
\* when it is blank, else the last line reached while the next line is
\* visible and non-blank.
CurrentBlockEnd(i) ==
    IF Blank(i) THEN i
    ELSE Max({e \in Lines : /\ e >= i
                            /\ \A m \in (i + 1)..e : Visible(m) /\ ~Blank(m)})

\* C8: moveDown from a line i before the last line returns the first line
\* after the end of the current block that is visible, non-blank and no
\* standalone closing delimiter, and the last line when there is none.
C8_ForwardSearchWithFolds ==
    (Down /\ last.from < N - 1) =>
        LET after == {j \in Lines : j > CurrentBlockEnd(last.from)
                                    /\ Candidate(j)}
        IN  last.target = IF after = {} THEN N - 1 ELSE Min(after)

\* C9: a moveUp that returns a line t other than line 0 returns the first
\* line of a block: t is visible and non-blank, and line t - 1 is blank,
\* hidden or a standalone closing delimiter.
C9_BackwardSearchLandsOnBlockStart ==
    (Up /\ last.from > 0 /\ last.target # 0) =>
        /\ Visible(last.target)
        /\ ~Blank(last.target)
        /\ \/ Blank(last.target - 1)
           \/ ~Visible(last.target - 1)
           \/ Closer(last.target - 1)

NoBlankLine == \A i \in Lines : ~Blank(i)

----------------------------------------------------------------------------
\* A first line of a block: non-blank, with no line or a blank line above.
BlockStart(i) == ~Blank(i) /\ (i = 0 \/ Blank(i - 1))

\* Two blocks are never more than one blank line apart.
OneBlankBetweenBlocks ==
    \A i \in Lines :
        (i + 1 \in Lines /\ Blank(i) /\ Blank(i + 1)) =>
            \/ \A k \in 0..i : Blank(k)
            \/ \A k \in i..(N - 1) : Blank(k)

\* A moveUp step that follows a moveDown from the first line of a block, in
\* a document with every line visible and one blank line between blocks.
RoundTripStep ==
    /\ last.cmd = "moveDown" /\ last'.cmd = "moveUp"
    /\ last'.from = last.target
    /\ AllVisible /\ OneBlankBetweenBlocks /\ BlockStart(last.from)

\* C11 as stated: moveDown from the first line s of any block, then moveUp
\* from the line reached, returns s.
C11_RoundTripEveryBlock ==
    [][RoundTripStep => last'.target = last.from]_vars

\* C11, amended: moveDown from the first line s of a block that has a block
\* after it, then moveUp from the line reached, returns s.
C11_RoundTripButLastBlock ==
    [][(RoundTripStep /\ BlockStartsAfter(last.from) # {}) =>
           last'.target = last.from]_vars

\* moveUp came back to the first line s > 0 of a block from the first line
\* of the next block, which is where moveDown from s lands.
C11_Witness ==
    /\ last.cmd = "moveUp" /\ AllVisible /\ OneBlankBetweenBlocks
    /\ BlockStart(last.target) /\ last.target > 0
    /\ BlockStart(last.from) /\ last.from > last.target
    /\ nextPosition(document, Position(last.target, 0), FALSE, Ed) = last.from

----------------------------------------------------------------------------
Moved == last.cmd \in {"moveUp", "moveDown"}
Selected == last.cmd \in {"selectUp", "selectDown"}
isEmpty(sel) == sel.anchor = sel.active

\* C12: after moveUp or moveDown the selection is a zero-width cursor on the
\* target line at column 0, whatever the selection was before.
C12_MoveLeavesCursorAtTarget ==
    Moved => /\ selection.anchor = selection.active
             /\ selection.active = Position(last.target, 0)

\* A move jumped to another line from a cursor that was not at column 0.
C12_Witness ==
    /\ Moved /\ last.target # last.from
    /\ last.before[1].active.character > 0
    /\ selection = Cursor(last.target, 0)

\* C13: after selectUp or selectDown the active end is (target, 0) and the
\* anchor is anchorPosition of the selection before, line and column; the
\* selection is not empty when the two differ.
C13_SelectSpansAnchorToTarget ==
    Selected =>
        /\ selection.active = Position(last.target, 0)
        /\ selection.anchor = anchorPosition(last.before[1])
        /\ (Position(last.target, 0) # anchorPosition(last.before[1])) =>
               ~isEmpty(selection)

\* A select extended a selection that was not empty and whose anchor is not
\* at column 0, to a target on another line than the anchor.
C13_Witness ==
    /\ Selected /\ ~isEmpty(last.before[1])
    /\ last.before[1].anchor.character > 0
    /\ selection.anchor = last.before[1].anchor
    /\ selection.active = Position(last.target, 0)
    /\ last.target # selection.anchor.line
    /\ last.target # last.from

\* C14: from a zero-width cursor on line L, every selectUp and selectDown
\* leaves the anchor on its line, so the anchor line is L after any sequence
\* of them, and puts the active end on its target line.
C14_AnchorLineFixed ==
    [][/\ selection'.anchor.line = selection.anchor.line
       /\ selection'.active.line = last'.target]_vars

\* The second of two selectDown from line 0 of a document of three blocks,
\* every line visible: the anchor is on line 0, and the active end went from
\* the first line of the second block to the first line of the third.
C14_Witness ==
    /\ last.cmd = "selectDown" /\ AllVisible
    /\ Cardinality({i \in Lines : BlockStart(i)}) = 3
    /\ last.before[1].anchor.line = 0
    /\ last.before[1].active.line = last.from
    /\ last.from > 0 /\ BlockStart(last.from)
    /\ last.target > last.from /\ BlockStart(last.target)
    /\ selection.anchor.line = 0
    /\ selection.active.line = last.target

----------------------------------------------------------------------------
\* C15: nextPosition called with a line outside the document does not throw
\* and returns a line of the document.
C15_OutOfRangeLineClamped ==
    (call.fn = "nextPosition" /\ call.line \notin Lines) =>
        /\ ~call.result.threw
        /\ call.result.value \in Lines

\* The visible ranges are one range from line 0 on: the viewport, with the
\* lines below it out of view and no fold above them.
ViewportOnly ==
    /\ Len(visibleRanges) = 1
    /\ visibleRanges[1].start = 0
    /\ visibleRanges[1].start <= visibleRanges[1].end

\* C16: with only the lines below the viewport out of the visible ranges,
\* moveDown and selectDown return the target they return with every line
\* visible.
C16_TargetBelowViewport ==
    (Down /\ ViewportOnly) =>
        last.target = nextPosition(document, Position(last.from, 0), FALSE,
                                   Editor(<<>>))

\* C17: with the editor absent, its visibleRanges absent or empty,
\* nextPosition returns from every line of the document, in both directions,
\* what it returns with one visible range over the whole document.
C17_AbsentOrEmptyRangesMeanAllVisible ==
    (/\ call.fn = "nextPosition" /\ call.line \in Lines
     /\ call.editor \in {NoEditor, EditorNoRanges, Editor(<<>>)}) =>
        call.result =
            Returned(nextPosition(document, Position(call.line, 0), call.up,
                         Editor(<<[start |-> 0, end |-> N - 1]>>)))

\* nextPosition, called without an editor, jumped up over a blank line to
\* the first line of a block of several lines.
C17_Witness ==
    /\ call.fn = "nextPosition" /\ call.editor = NoEditor /\ call.up
    /\ ~call.result.threw
    /\ call.result.value + 2 < call.line
    /\ ~Blank(call.result.value) /\ ~Blank(call.result.value + 1)
    /\ \E b \in call.result.value..call.line : Blank(b)

----------------------------------------------------------------------------
\* The lines some range of the editor covers, both ends included.
Covered(editor) ==
    UNION {editor.visibleRanges[k].start..editor.visibleRanges[k].end :
               k \in 1..Len(editor.visibleRanges)}

\* C18: isLineVisible is true when the editor or its ranges are absent or
\* the ranges empty; else it is true exactly for the lines some range covers,
\* ends included, in whatever order the ranges come, and false for every
\* other line, those outside the document too.
C18_IsLineVisible ==
    call.fn = "isLineVisible" =>
        call.result =
            IF call.editor \in {NoEditor, EditorNoRanges, Editor(<<>>)}
            THEN TRUE
            ELSE call.line \in Covered(call.editor)

\* isLineVisible found a line visible that is the last line of the second of
\* two ranges given in descending order.
C18_Witness ==
    /\ call.fn = "isLineVisible" /\ call.result
    /\ Len(call.editor.visibleRanges) = 2
    /\ call.editor.visibleRanges[2].end < call.editor.visibleRanges[1].start
    /\ call.editor.visibleRanges[2].start < call.editor.visibleRanges[2].end
    /\ call.line = call.editor.visibleRanges[2].end

\* The lines from index to boundary in the direction of step, both included.
Toward(index, step, boundary) ==
    IF step = 1 THEN index..boundary ELSE boundary..index

\* C19: skipCollapsedRegion returns index when line index is visible, else
\* the first visible line from index toward the boundary, and the boundary
\* when there is none; in all cases a line between index and the boundary.
C19_SkipCollapsedRegion ==
    call.fn = "skipCollapsedRegion" =>
        LET seen == {j \in Toward(call.index, call.step, call.boundary) :
                        isLineVisible(j, call.editor)}
        IN  /\ call.result \in Toward(call.index, call.step, call.boundary)
            /\ call.result =
                   IF seen = {} THEN call.boundary
                   ELSE IF call.step = 1 THEN Min(seen) ELSE Max(seen)
            /\ isLineVisible(call.index, call.editor) =>
                   call.result = call.index

\* skipCollapsedRegion walked back over two hidden lines or more to a
\* visible line before the boundary.
C19_Witness ==
    /\ call.fn = "skipCollapsedRegion" /\ call.step = -1
    /\ call.result + 2 <= call.index /\ call.result > call.boundary
    /\ isLineVisible(call.result, call.editor)
    /\ \A j \in (call.result + 1)..call.index :
           ~isLineVisible(j, call.editor)

\* C20: the forward walk to the end of the current block returns index when
\* line index is blank; else the last line e from index to the boundary with
\* every line after index up to e visible and non-blank: never the blank
\* line after the block, never a hidden line.
C20_SkipToEndOfCurrentBlock ==
    (call.fn = "skipToEndOfBlock" /\ call.step = 1) =>
        call.result =
            IF Blank(call.index) THEN call.index
            ELSE Max({e \in call.index..call.boundary :
                         \A m \in (call.index + 1)..e :
                             isLineVisible(m, call.editor) /\ ~Blank(m)})

----------------------------------------------------------------------------
\* C21: anchorPosition returns the anchor of the selection, line and column,
\* for every selection, reversed selections on one line included.
C21_AnchorPositionIsAnchor ==
    call.fn = "anchorPosition" => call.result = call.selection.anchor

\* C22: from a zero-width cursor at P, every selectUp and selectDown leaves
\* the anchor where it was, line and column, so the anchor is P after any
\* sequence of them.
C22_AnchorFixed ==
    [][selection'.anchor = selection.anchor]_vars

\* C23: moveDown returns no line before the line it starts from and moveUp
\* no line after it, whatever the document and the visible ranges.
C23_DirectionRespected ==
    /\ Down => last.target >= last.from
    /\ Up => last.target <= last.from

\* moveUp from a line below a hidden run went up over the run to a line
\* above it.
C23_Witness ==
    /\ Up /\ last.target + 2 < last.from
    /\ ~Visible(last.from - 1) /\ ~Visible(last.from - 2)
    /\ Visible(last.target)

----------------------------------------------------------------------------
\* C24: moveDown from a line before the last line puts the cursor on a later
\* line, and from the last line leaves it there; the cursor line then grows
\* with every moveDown until it is the last line, so moveDown repeated
\* reaches the last line within lineCount - 1 commands and stays.
C24_MoveDownProgress ==
    Down =>
        /\ selection.active.line = last.target
        /\ IF last.from < N - 1 THEN last.target > last.from
           ELSE last.target = N - 1

\* moveDown from a line whose next line is hidden went on to a later line
\* that is not the last line.
C24_Witness ==
    /\ Down /\ ~Visible(last.from + 1) /\ Visible(last.from)
    /\ last.target > last.from /\ last.target < N - 1

\* C25: moveUp from a line after line 0 returns an earlier line, so moveUp
\* repeated reaches line 0: the cursor is never stuck below a fold.
C25_MoveUpProgress ==
    (Up /\ last.from > 0) => last.target < last.from

----------------------------------------------------------------------------
\* nextPosition run step by step: one step is one test of a loop condition
\* or one branch.  call holds the run: the arguments line and up, the
\* position pc in the code, the variables index and current, the lines
\* passed to document.lineAt in the last step, and the number of steps.
runBoundary == IF call.up THEN 0 ELSE N - 1
runStep == IF call.up THEN -1 ELSE 1

\* document.lineAt(i).isEmptyOrWhitespace; the step records i in reads.
readBlank(i) == IF i \in Lines THEN Blank(i) ELSE FALSE

Running(pcs) == call.fn = "run" /\ call.pc \in pcs

RunTo(pc, index, current, reads) ==
    /\ call' = [call EXCEPT !.pc = pc, !.index = index, !.current = current,
                            !.reads = reads, !.steps = @ + 1]
    /\ UNCHANGED <<document, visibleRanges, activeTextEditor, selection,
                   revealedRange, last>>

\* extension.ts 225-231
runStart ==
    \E line \in Lines, up \in BOOLEAN :
        /\ call = NoCall
        /\ call' = [fn |-> "run", line |-> line, up |-> up,
                    pc |-> IF line = (IF up THEN 0 ELSE N - 1)
                           THEN "done" ELSE "skipToEndOfBlock",
                    index |-> line, current |-> line, reads |-> {},
                    steps |-> 0]
        /\ UNCHANGED <<document, visibleRanges, activeTextEditor, selection,
                       revealedRange, last>>

\* extension.ts 41-54, with shouldContinueInBlock 26-30
runSkipToEndOfBlock ==
    /\ Running({"skipToEndOfBlock"})
    /\ LET i == call.index
           reads == IF i # runBoundary THEN {i} ELSE {}
       IN  IF /\ i # runBoundary /\ ~readBlank(i)
              /\ i + runStep # runBoundary /\ Visible(i + runStep)
           THEN RunTo("skipToEndOfBlock", i + runStep, call.current, reads)
           ELSE RunTo("skipEmptyLines",
                      IF /\ i # runBoundary /\ ~readBlank(i)
                         /\ i + runStep = runBoundary
                      THEN runBoundary ELSE i,
                      call.current, reads)

\* skipEmptyLines with the boundary test after the step instead of before.
runSkipEmptyLinesLateBoundaryTest ==
    /\ Running({"skipEmptyLines", "skipEmptyLinesAfter",
                "skipEmptyLinesEdge"})
    /\ LET i == call.index
       IN  IF readBlank(i) /\ Visible(i) /\ i - runStep # runBoundary
           THEN RunTo(call.pc, i + runStep, call.current, {i})
           ELSE RunTo(IF call.pc = "skipEmptyLinesEdge" THEN "done"
                      ELSE IF call.pc = "skipEmptyLines" /\ ~Visible(i)
                           THEN "skipCollapsedRegion" ELSE "dispatch",
                      i, call.current, {i})

\* extension.ts 65-72; then 190 after the first call, 195 after the second,
\* 213 after the one of handleMoveDownAtCollapsedEdge
runSkipEmptyLines ==
    /\ Running({"skipEmptyLines", "skipEmptyLinesAfter",
                "skipEmptyLinesEdge"})
    /\ LET i == call.index
           reads == IF i # runBoundary THEN {i} ELSE {}
       IN  IF i # runBoundary /\ readBlank(i) /\ Visible(i)
           THEN RunTo(call.pc, i + runStep, call.current, reads)
           ELSE RunTo(IF call.pc = "skipEmptyLinesEdge" THEN "done"
                      ELSE IF call.pc = "skipEmptyLines" /\ ~Visible(i)
                           THEN "skipCollapsedRegion" ELSE "dispatch",
                      i, call.current, reads)

\* extension.ts 82-85; then 192, or 213 from handleMoveDownAtCollapsedEdge
runSkipCollapsedRegion ==
    /\ Running({"skipCollapsedRegion", "skipCollapsedRegionEdge"})
    /\ LET i == call.index
       IN  IF i # runBoundary /\ ~Visible(i)
           THEN RunTo(call.pc, i + runStep, call.current, {})
           ELSE RunTo(IF call.pc = "skipCollapsedRegion"
                      THEN "skipEmptyLinesAfter" ELSE "skipEmptyLinesEdge",
                      i, call.current, {})

\* extension.ts 241-250, with handleMoveUp 157-172 up to its loops,
\* findCollapsedBlockStart 113-121, isAtCollapsedEdge 90-91 and
\* handleMoveDownAtCollapsedEdge 205-216 up to its loops
runDispatch ==
    /\ Running({"dispatch"})
    /\ LET i == call.index
       IN  IF call.up
           THEN IF i = runBoundary THEN RunTo("done", i, call.current, {})
                ELSE IF readBlank(i) THEN RunTo("done", i, call.current, {i})
                ELSE IF i # 0 /\ ~Visible(i - 1)
                     THEN RunTo("findVisibleAboveCollapsed", i, i - 1, {i})
                     ELSE RunTo(IF Visible(i) THEN "findBlockStart"
                                ELSE "done", i, call.current, {i})
           ELSE IF i = call.line /\ i # runBoundary
                   /\ i + 1 <= runBoundary /\ ~Visible(i + 1)
                THEN RunTo("skipCollapsedRegionEdge", i + 1, call.current,
                           {})
                ELSE RunTo("done", i, call.current, {})

\* extension.ts 100-103; then 124-132 and 168-172
runFindVisibleAboveCollapsed ==
    /\ Running({"findVisibleAboveCollapsed"})
    /\ LET c == call.current
       IN  IF c > 0 /\ ~Visible(c)
           THEN RunTo(call.pc, call.index, c - 1, {})
           ELSE IF c >= 0 /\ Visible(c)
                THEN IF ~readBlank(c) THEN RunTo("done", c, c, {c})
                     ELSE RunTo(IF Visible(call.index) THEN "findBlockStart"
                                ELSE "done", call.index, c, {c})
                ELSE RunTo(IF Visible(call.index) THEN "findBlockStart"
                           ELSE "done", call.index, c, {})

\* extension.ts 141-147
runFindBlockStart ==
    /\ Running({"findBlockStart"})
    /\ LET i == call.index
           reads == IF i > 0 THEN {i - 1} ELSE {}
       IN  IF i > 0 /\ ~readBlank(i - 1) /\ Visible(i - 1)
           THEN RunTo("findBlockStart", i - 1, call.current, reads)
           ELSE RunTo("done", i, call.current, reads)

RunNext ==
    \/ runStart
    \/ runSkipToEndOfBlock
    \/ runSkipEmptyLines
    \/ runSkipCollapsedRegion
    \/ runDispatch
    \/ runFindVisibleAboveCollapsed
    \/ runFindBlockStart

SpecRun == CallInit /\ [][RunNext]_vars

\* The run returns what nextPosition returns.
RunReturnsNextPosition ==
    Running({"done"}) =>
        call.index = nextPosition(document, Position(call.line, 0), call.up,
                                  Ed)

\* C26: a call of nextPosition from a line of the document ends: it takes no
\* more steps than three passes over the document and its branches; its
\* indexes stay between the boundary and the line it started from; and it
\* passes no line outside the document to lineAt.
C26_RunEndsInsideDocument ==
    call.fn = "run" =>
        /\ call.steps <= 3 * N + 8
        /\ call.index \in Toward(call.line, runStep, runBoundary)
        /\ call.current \in Lines
        /\ call.reads \subseteq Lines

\* A moveUp run that ended after it walked from the last line over a
\* document of which the visible ranges hide every line.
C26_Witness ==
    /\ Running({"done"}) /\ call.up
    /\ \A i \in Lines : ~Visible(i)
    /\ call.line = N - 1 /\ N >= 3 /\ call.steps >= N + 2

----------------------------------------------------------------------------
\* A command run statement by statement: the handler computes the arguments
\* of markSelection, then markSelection computes active, assigns the
\* selection and requests the reveal.  call holds the command, the position
\* in markSelection and its arguments and local; revealedRange collects the
\* ranges passed to editor.revealRange, in order.
Commands == {"moveUp", "moveDown", "selectUp", "selectDown"}

MarkInit ==
    /\ document \in TextDocuments(MaxEditorLines)
    /\ visibleRanges \in RangeSets(Len(document))
    /\ activeTextEditor = TRUE
    /\ \E anchor \in Positions(Len(document)),
          active \in Positions(Len(document)) :
           selection = [anchor |-> anchor, active |-> active]
    /\ revealedRange = <<>>
    /\ last = NoCommand
    /\ call = NoCall

\* extension.ts 271-278, 283-290, 295-303, 308-315
commandStart ==
    \E cmd \in Commands :
        /\ call = NoCall
        /\ activeTextEditor
        /\ call' = [fn |-> "command", cmd |-> cmd, pc |-> "active",
                    next |-> nextPosition(document, selection.active,
                                          cmd \in {"moveUp", "selectUp"},
                                          Editor(visibleRanges)),
                    anchor |-> IF cmd \in {"selectUp", "selectDown"}
                               THEN <<anchorPosition(selection)>>
                               ELSE <<>>,
                    active |-> selection.active]
        /\ UNCHANGED <<document, visibleRanges, activeTextEditor, selection,
                       revealedRange, last>>

\* extension.ts 264
markSelectionActive ==
    /\ call.fn = "command" /\ call.pc = "active"
    /\ call' = [call EXCEPT !.pc = "assign",
                            !.active = [selection.active EXCEPT
                                           !.line = call.next,
                                           !.character = 0]]
    /\ UNCHANGED <<document, visibleRanges, activeTextEditor, selection,
                   revealedRange, last>>

\* extension.ts 265
markSelectionAssign ==
    /\ call.fn = "command" /\ call.pc = "assign"
    /\ selection' = [anchor |-> IF call.anchor = <<>> THEN call.active
                                ELSE call.anchor[1],
                     active |-> call.active]
    /\ call' = [call EXCEPT !.pc = "reveal"]
    /\ UNCHANGED <<document, visibleRanges, activeTextEditor, revealedRange,
                   last>>

\* The reveal of the range at the selection's anchor.
markSelectionRevealAnchor ==
    /\ call.fn = "command" /\ call.pc = "reveal"
    /\ revealedRange' = Append(revealedRange, [start |-> selection.anchor,
                                               end |-> selection.anchor])
    /\ call' = [call EXCEPT !.pc = "done"]
    /\ UNCHANGED <<document, visibleRanges, activeTextEditor, selection,
                   last>>

\* extension.ts 266
markSelectionReveal ==
    /\ call.fn = "command" /\ call.pc = "reveal"
    /\ revealedRange' = Append(revealedRange, [start |-> call.active,
                                               end |-> call.active])
    /\ call' = [call EXCEPT !.pc = "done"]
    /\ UNCHANGED <<document, visibleRanges, activeTextEditor, selection,
                   last>>

MarkNext ==
    \/ commandStart
    \/ markSelectionActive
    \/ markSelectionAssign
    \/ markSelectionReveal

SpecMark == MarkInit /\ [][MarkNext]_vars

\* C27: a command requests no reveal before it has assigned the selection;
\* once the selection is assigned it requests one reveal, and that is of the
\* zero-width range at the new active position (target, 0).
C27_RevealAfterSelection ==
    call.fn = "command" =>
        LET target == Position(call.next, 0)
        IN  /\ call.pc \in {"active", "assign", "reveal"} =>
                   revealedRange = <<>>
            /\ call.pc \in {"reveal", "done"} => selection.active = target
            /\ call.pc = "done" =>
                   revealedRange = <<[start |-> target, end |-> target]>>

\* selectDown, done: the one revealed range is on the target line, and the
\* selection's anchor is on another line and off column 0.
C27_Witness ==
    /\ call.fn = "command" /\ call.cmd = "selectDown" /\ call.pc = "done"
    /\ Len(revealedRange) = 1
    /\ revealedRange[1].start.line = call.next
    /\ selection.anchor.line # call.next
    /\ selection.anchor.character # 0

\* C28: with no active text editor a command changes nothing: it computes no
\* target, writes no selection and requests no reveal.
C28_NoEditorNoOp ==
    [][~activeTextEditor => UNCHANGED vars]_vars

\* No active editor, and the cursor where every one of the four commands
\* would move it: off column 0 on a line that is neither the first nor the
\* last; no command has left a trace.
C28_Witness ==
    /\ ~activeTextEditor
    /\ selection.active.character # 0
    /\ selection.active.line \notin {0, N - 1}
    /\ last = NoCommand /\ revealedRange = <<>>

\* C29: the navigation consults the closing-delimiter test for every line it
\* may land on: a command that leaves its line and does not end on the first
\* or the last line of the document does not end on a line whose trimmed
\* text is a standalone closing delimiter.
C29_ClosingDelimiterConsulted ==
    (/\ last.cmd # "none"
     /\ last.target # last.from
     /\ last.target \notin {0, N - 1}) => ~Closer(last.target)

----------------------------------------------------------------------------
\* findBlockStart called directly, as the tests of part_002 call it: on any
\* document of blank, text and closing-delimiter lines, from any line, with
\* and without an editor.
BlockInit ==
    /\ document \in Documents(MaxEditorLines)
    /\ visibleRanges \in RangeSets(Len(document))
    /\ activeTextEditor = FALSE
    /\ selection = Cursor(0, 0)
    /\ revealedRange = <<>>
    /\ last = NoCommand
    /\ call = NoCall

callFindBlockStart ==
    \E index \in 0..(Len(document) - 1),
       editor \in {NoEditor, Editor(visibleRanges)} :
        /\ call = NoCall
        /\ call' = [fn |-> "findBlockStart", index |-> index,
                    editor |-> editor,
                    result |-> findBlockStart(document, index, editor)]
        /\ UNCHANGED <<document, visibleRanges, activeTextEditor, selection,
                       revealedRange, last>>

BlockNext == callFindBlockStart

SpecBlock == BlockInit /\ [][BlockNext]_vars

\* C30: findBlockStart from index, with the boundary 0 of the backward
\* search, returns the smallest line j <= index such that every line from j
\* to index - 1 is visible, non-blank and no standalone closing delimiter.
C30_FindBlockStart ==
    call.fn = "findBlockStart" =>
        call.result =
            Min({j \in 0..call.index :
                    \A m \in j..(call.index - 1) :
                        /\ isLineVisible(m, call.editor)
                        /\ ~Blank(m)
                        /\ ~Closer(m)})

====
